---------------------------- MODULE Spec2Model ----------------------------
(***************************************************************************)
(* Model of the branch-event core of cdk-pipelines-multi-branch:           *)
(*   - github_webhook_handler.py: secret cache, signature validation,      *)
(*     event normalisation, EventBridge publication and the Lambda handler *)
(*   - destroy_branch.py: the branch decommissioner                        *)
(*                                                                         *)
(* Strings are sequences of tokens.  The token "refs/heads/" is the ref    *)
(* prefix, "sha256=" the signature prefix; a digest is one symbolic token  *)
(* <<"hmac-sha256", key, message>> (HMAC is taken to be collision free).   *)
(* A Python value is a record tagged with its type.                        *)
(***************************************************************************)
EXTENDS Integers, Sequences, FiniteSets, TLC

\* ------------------------------------------------------------------ bounds

\* Longest ref string (in tokens) a payload carries.
MaxRefLen == 2

\* Longest signature header (in tokens).
MaxSigLen == 2

\* Calls of get_webhook_secret followed in one process.
MaxSecretCalls == 4

\* Longest ref string (in tokens) of a payload sent to the webhook endpoint.
MaxWebhookRefLen == 1

\* Threads of one process that may run get_webhook_secret.
NThreads == 2

\* Webhook requests followed through EventBridge to the functions they invoke.
MaxWebhookCalls == 2

\* Longest branch name (in tokens) of an event the decommissioner is invoked with.
MaxBranchLen == 1

\* -------------------------------------------------------- values and strings

PyNone == [type |-> "NoneType"]

PyStr(s) == [type |-> "str", val |-> s]

PyBool(b) == [type |-> "bool", val |-> b]

\* A dict; d is a function from its keys to Python values.
PyDict(d) == [type |-> "dict", val |-> d]

\* A JSON array, the representative of the parsed bodies that are no object.
PyList == [type |-> "list"]

EmptyDict == [k \in {} |-> PyNone]

\* Python truthiness ("if v:", "not v").
Truthy(v) ==
    CASE v.type = "NoneType" -> FALSE
      [] v.type = "str" -> v.val # <<>>
      [] v.type = "bool" -> v.val
      [] v.type = "dict" -> DOMAIN v.val # {}
      [] OTHER -> TRUE

\* dict.get(k, default) on the function d.
DictGet(d, k, default) == IF k \in DOMAIN d THEN d[k] ELSE default

\* The outcome of a call: a returned value or a raised exception.
Return(v) == [ret |-> v]

Raise(e) == [exc |-> e]

Raised(o) == "exc" \in DOMAIN o

\* Strings of at most n tokens over an alphabet.
StringsUpTo(alphabet, n) == UNION {[1..k -> alphabet] : k \in 0..n}

RECURSIVE Remove(_, _)
\* s with every occurrence of the one-token pattern tok removed.
Remove(s, tok) ==
    IF s = <<>> THEN <<>>
    ELSE IF Head(s) = tok THEN Remove(Tail(s), tok)
    ELSE <<Head(s)>> \o Remove(Tail(s), tok)

\* str.startswith for a one-token prefix.
StartsWith(s, tok) == Len(s) >= 1 /\ s[1] = tok

\* str.replace(old, '') for a one-token pattern: every occurrence goes.
StrReplaceAll(s, old) == Remove(s, old)

RefsHeads == "refs/heads/"

RefChars == {RefsHeads, "x"}

RefStrings == StringsUpTo(RefChars, MaxRefLen)

\* ------------------------------------------------------ signature validation

Sha256Prefix == <<"lit", "sha256=">>

\* A character outside ASCII, as a header may carry.
NonAsciiChar == <<"lit", "\\u00e9">>

\* Signing secrets: the one the store holds and another one.
Secrets == {<<"k1">>, <<"k2">>}

IsAscii(s) == \A i \in 1..Len(s) : s[i] # NonAsciiChar

\* str.encode('utf-8'): the bytes of a string.
Utf8Encode(s) == <<"utf-8", s>>

\* hmac.new(key, msg, sha256).hexdigest() on bytes: one symbolic digest token.
HmacSha256Hex(key, msg) == <<<<"hmac-sha256", key, msg>>>>

\* hmac.compare_digest on two str: TypeError unless both are ASCII.
CompareDigest(a, b) ==
    IF ~IsAscii(a) \/ ~IsAscii(b) THEN Raise("TypeError") ELSE Return(PyBool(a = b))

\* validate_github_signature: Return(True), Return(False) or a raised exception.
validate_github_signature(payload, sig, secret) ==
    IF sig = <<>> \/ ~StartsWith(sig, Sha256Prefix) THEN Return(PyBool(FALSE))
    ELSE CompareDigest(<<Sha256Prefix>> \o HmacSha256Hex(Utf8Encode(secret), payload),
                       sig)

\* ------------------------------------------------------------ normalisation

\* body.get(outer, {}).get(inner): AttributeError when the outer value is no dict.
NestedGet(body, outer, inner) ==
    LET o == DictGet(body.val, outer, PyDict(EmptyDict))
    IN  IF o.type # "dict" THEN Raise("AttributeError")
        ELSE Return(DictGet(o.val, inner, PyNone))

\* The dict parse_github_event returns for a branch event.
EventData(eventType, referenceName, body) ==
    LET repo == NestedGet(body, "repository", "full_name")
        sender == NestedGet(body, "sender", "login")
        ts == NestedGet(body, "repository", "updated_at")
    IN  IF Raised(repo) \/ Raised(sender) \/ Raised(ts) THEN Raise("AttributeError")
        ELSE Return(PyDict([eventType |-> PyStr(<<eventType>>),
                            referenceType |-> PyStr(<<"branch">>),
                            referenceName |-> referenceName,
                            repositoryName |-> repo.ret,
                            sender |-> sender.ret,
                            timestamp |-> ts.ret]))

\* The explicit create / delete branch of parse_github_event.
ParseExplicit(eventType, body) ==
    IF body.type # "dict" THEN Raise("AttributeError")
    ELSE IF DictGet(body.val, "ref_type", PyNone) = PyStr(<<"branch">>)
         THEN EventData(eventType, DictGet(body.val, "ref", PyNone), body)
         ELSE Return(PyNone)

\* branch_name = ref.replace('refs/heads/', '')
PushBranchName(ref) == StrReplaceAll(ref, RefsHeads)

\* One flag branch of the push case: the ref must lie under refs/heads/.
ParsePushRef(eventType, body) ==
    LET ref == DictGet(body.val, "ref", PyStr(<<>>))
    IN  IF ref.type # "str" THEN Raise("AttributeError")
        ELSE IF StartsWith(ref.val, RefsHeads)
             THEN EventData(eventType, PyStr(PushBranchName(ref.val)), body)
             ELSE Return(PyNone)

\* The push branch of parse_github_event: created is tested before deleted.
ParsePush(body) ==
    IF body.type # "dict" THEN Raise("AttributeError")
    ELSE IF Truthy(DictGet(body.val, "created", PyNone))
         THEN ParsePushRef("create", body)
    ELSE IF Truthy(DictGet(body.val, "deleted", PyNone))
         THEN ParsePushRef("delete", body)
    ELSE Return(PyNone)

\* headers.get('X-GitHub-Event', headers.get('x-github-event', ''))
GithubEventHeader(headers) ==
    DictGet(headers, "X-GitHub-Event", DictGet(headers, "x-github-event", PyStr(<<>>)))

\* Faulty variant: an explicit create is taken for a branch event whatever its ref_type.
ParseIgnoringRefType(headers, body) ==
    LET github_event == GithubEventHeader(headers)
    IN  IF github_event = PyStr(<<"create">>) /\ body.type = "dict"
        THEN EventData("create", DictGet(body.val, "ref", PyNone), body)
        ELSE IF github_event = PyStr(<<"delete">>) THEN ParseExplicit("delete", body)
        ELSE IF github_event = PyStr(<<"push">>) THEN ParsePush(body)
        ELSE Return(PyNone)

\* parse_github_event: Return(event dict), Return(PyNone) or a raised exception.
parse_github_event(headers, body) ==
    LET github_event == GithubEventHeader(headers)
    IN  IF github_event = PyStr(<<"create">>) THEN ParseExplicit("create", body)
        ELSE IF github_event = PyStr(<<"delete">>) THEN ParseExplicit("delete", body)
        ELSE IF github_event = PyStr(<<"push">>) THEN ParsePush(body)
        ELSE Return(PyNone)

\* ------------------------------------------------------------------- inputs

\* A body text: malformed, or the text of a JSON value.
MalformedText == [wellformed |-> FALSE]

JsonText(v) == [wellformed |-> TRUE, value |-> v]

\* Marks a key a dict does not hold.
Absent == [type |-> "absent"]

\* The dict holding the fields of r that are not Absent.
DictOf(r) == [k \in {f \in DOMAIN r : r[f] # Absent} |-> r[k]]

Flags == {Absent, PyBool(TRUE), PyBool(FALSE)}

RefTypes == {Absent, PyStr(<<"branch">>), PyStr(<<"tag">>)}

Refs == {Absent} \cup {PyStr(r) : r \in RefStrings}

Repository ==
    PyDict([full_name |-> PyStr(<<"org", "/", "repo">>),
            updated_at |-> PyStr(<<"2024-01-01T00:00:00Z">>)])

Sender == PyDict([login |-> PyStr(<<"octocat">>)])

\* The payload objects of the three shapes, with every field optional.
JsonObjects ==
    {PyDict(DictOf(r)) : r \in [ref : Refs, ref_type : RefTypes, created : Flags,
                                deleted : Flags, repository : {Absent, Repository},
                                sender : {Absent, Sender}]}

GithubEvents == {PyStr(<<e>>) : e \in {"create", "delete", "push", "ping"}}

\* The header map with value u under name1 and l under name2, Absent ones left out.
HeaderMap(name1, u, name2, l) ==
    [k \in (IF u # Absent THEN {name1} ELSE {}) \cup (IF l # Absent THEN {name2} ELSE {})
        |-> IF k = name1 THEN u ELSE l]

\* Header maps carrying the event type under either spelling, both or none.
EventHeaders ==
    {HeaderMap("X-GitHub-Event", u, "x-github-event", l) :
        u \in {Absent} \cup GithubEvents, l \in {Absent} \cup GithubEvents}

\* Inputs of parse_github_event: every header map with every parsed body.
ParseInputs == EventHeaders \X (JsonObjects \cup {PyList})

\* Body texts signed in the checks of validate_github_signature.
SignedTexts == {MalformedText, JsonText(PyList), JsonText(PyDict(EmptyDict))}

\* The tokens a signature header is made of: the prefix, a non-ASCII character and
\* the digests of the signed texts under each secret.
SigChars ==
    {Sha256Prefix, NonAsciiChar}
    \cup {HmacSha256Hex(Utf8Encode(k), Utf8Encode(t))[1] : k \in Secrets, t \in SignedTexts}

\* Inputs of validate_github_signature: payload bytes, signature string, secret.
ValidateInputs ==
    {Utf8Encode(t) : t \in SignedTexts} \X StringsUpTo(SigChars, MaxSigLen) \X Secrets

\* What Secrets Manager answers for the secret: a string secret or a binary one.
SecretStores ==
    {DictOf([SecretString |-> PyStr(<<"k1">>)]), DictOf([SecretBinary |-> PyStr(<<"k1">>)])}

\* Payload objects sent to the webhook endpoint: repository and sender present.
WebhookObjects ==
    {PyDict(DictOf(r)) :
        r \in [ref : {Absent} \cup {PyStr(x) : x \in StringsUpTo(RefChars, MaxWebhookRefLen)},
               ref_type : RefTypes, created : Flags, deleted : Flags,
               repository : {Repository}, sender : {Sender}]}

\* Body texts sent to the webhook endpoint.
WebhookTexts == {MalformedText, JsonText(PyList)} \cup {JsonText(o) : o \in WebhookObjects}

\* The signature headers sent with text t: none, the digest without its prefix, the
\* expected header under each secret, and a prefixed non-ASCII string.
WebhookSignatures(t) ==
    {Absent, PyStr(HmacSha256Hex(Utf8Encode(<<"k1">>), Utf8Encode(t))),
     PyStr(<<Sha256Prefix, NonAsciiChar>>)}
    \cup {PyStr(<<Sha256Prefix>> \o HmacSha256Hex(Utf8Encode(k), Utf8Encode(t))) :
            k \in Secrets}

\* The header map of a request: both headers spelled as sent or both lower-cased.
WebhookHeaders(lower, ev, sig) ==
    IF lower THEN HeaderMap("x-github-event", ev, "x-hub-signature-256", sig)
    ELSE HeaderMap("X-GitHub-Event", ev, "X-Hub-Signature-256", sig)

\* A body as transported: the text itself, its base64 form, or invalid base64.
PlainBody(t) == [encoding |-> "plain", text |-> t]

Base64Body(t) == [encoding |-> "base64", text |-> t]

InvalidBase64Body == [encoding |-> "base64-invalid"]

\* A body text with a signature header sent along with it.
SignedBodies == UNION {{t} \X WebhookSignatures(t) : t \in WebhookTexts}

\* The API Gateway events the webhook handler is invoked with.
WebhookRequests ==
    {[headers |-> WebhookHeaders(lower, ev, p[2]), body |-> PlainBody(p[1]),
      isBase64Encoded |-> FALSE] :
        lower \in BOOLEAN, ev \in {Absent} \cup GithubEvents, p \in SignedBodies}
    \cup
    {[headers |-> WebhookHeaders(lower, ev, p[2]), body |-> Base64Body(p[1]),
      isBase64Encoded |-> TRUE] :
        lower \in BOOLEAN, ev \in {Absent} \cup GithubEvents, p \in SignedBodies}
    \cup
    {[headers |-> WebhookHeaders(lower, ev, Absent), body |-> InvalidBase64Body,
      isBase64Encoded |-> TRUE] :
        lower \in BOOLEAN, ev \in {Absent} \cup GithubEvents}

\* Branch names of the events the decommissioner is invoked with.
BranchNames == StringsUpTo({"x"}, MaxBranchLen)

\* Events of the native hook: CodeCommit's detail carries referenceType,
\* referenceName and repositoryName.
NativeDeleteEvents ==
    {DictOf([source |-> PyStr(<<"aws.codecommit">>), detail |-> PyDict(DictOf(d))]) :
        d \in [referenceType : RefTypes,
               referenceName : {Absent} \cup {PyStr(b) : b \in BranchNames},
               repositoryName : {Absent, PyStr(<<"repo">>)}]}

\* Events of the webhook path: the detail publish_to_eventbridge builds, with the
\* sender and the timestamp; a referenceName of null arrives as None.
WebhookDeleteEvents ==
    {DictOf([source |-> PyStr(<<"github.webhook">>), detail |-> PyDict(DictOf(d))]) :
        d \in [referenceType : RefTypes,
               referenceName : {PyNone} \cup {PyStr(b) : b \in BranchNames},
               repositoryName : {PyStr(<<"org", "/", "repo">>)},
               sender : {PyStr(<<"octocat">>)},
               timestamp : {PyStr(<<"2024-01-01T00:00:00Z">>)}]}

\* Events delivered to the decommissioner: of either origin, or one without a detail.
DeleteEvents ==
    {DictOf([detail |-> Absent])} \cup NativeDeleteEvents \cup WebhookDeleteEvents

\* ---------------------------------------------------------------- variables

VARIABLES pure_fn, pure_in, pure_out

\* The decommissioner: its position, its event, the CodeBuild calls it has issued in
\* this invocation, and CodeBuild's projects and started builds.
VARIABLES dpc, devent, calls, projects, builds

\* The error records the running invocation has logged.
VARIABLES dlog

\* History: CodeBuild's projects when the running invocation began, the previous
\* invocation (its event, its calls and how it ended), and whether a call of another
\* invocation reached CodeBuild while this one was running.
VARIABLES projects0, prev, overlap

\* Invocations running alongside the decommissioner, each in a container of its own:
\* a second decommissioner invocation and a provisioner invocation, each with its
\* position and its branch.
VARIABLES other, prov

\* The secret cache: the module global, what Secrets Manager holds, and for each
\* thread its position in get_webhook_secret, its response local and its result.
VARIABLES webhook_secret_cache, secret_store, gpc, gresponse, gret

\* History: the outcome of every Secrets Manager call, and for every finished call
\* of get_webhook_secret the store calls before and after it and its outcome.
VARIABLES store_log, call_log, call_start

\* The webhook handler: its position, the event it was invoked with, its locals, the
\* response of put_events, the entries EventBridge accepted in this invocation and
\* the steps taken in it.
VARIABLES hpc, request, body_str, signature, webhook_secret, body, event_data,
          response, put_response, published, trace

\* EventBridge: the entries put_events accepted that are not yet delivered, the
\* Lambda invocations its rules made, and the webhook requests received so far.
VARIABLES bus, invoked, nreq

pureVars == <<pure_fn, pure_in, pure_out>>

destroyVars == <<dpc, devent, calls, projects, builds, dlog, projects0, prev, overlap>>

lifeVars == <<other, prov>>

busVars == <<bus, invoked, nreq>>

cacheVars == <<webhook_secret_cache, secret_store, gpc, gresponse, gret>>

histVars == <<store_log, call_log, call_start>>

handlerVars ==
    <<hpc, request, body_str, signature, webhook_secret, body, event_data, response,
      put_response, published, trace>>

vars == <<pureVars, destroyVars, cacheVars, histVars, handlerVars, lifeVars, busVars>>

notPure == <<destroyVars, cacheVars, histVars, handlerVars, lifeVars, busVars>>

notDestroy == <<pureVars, cacheVars, histVars, handlerVars, lifeVars, busVars>>

Threads == 1..NThreads

\* A local not yet assigned.
Unset == [unset |-> TRUE]

\* An invocation that is not running.
NotRunning == [pc |-> "idle", branch |-> <<>>]

Pending == [pending |-> TRUE]

\* No pure function is under check.
PureIdle == pure_fn = "none" /\ pure_in = <<>> /\ pure_out = Pending

\* The decommissioner is not running and CodeBuild is empty.
DestroyIdle ==
    /\ dpc = "idle" /\ devent = EmptyDict /\ calls = <<>>
    /\ projects = {} /\ builds = {} /\ dlog = <<>> /\ projects0 = {} /\ prev = Unset
    /\ overlap = FALSE
    /\ other = NotRunning /\ prov = NotRunning

\* EventBridge holds nothing and has invoked nothing.
BusIdle == bus = {} /\ invoked = {} /\ nreq = 0

\* The webhook handler is not running.
HandlerIdle ==
    /\ hpc = "idle" /\ request = Unset /\ body_str = Unset /\ signature = Unset
    /\ webhook_secret = Unset /\ body = Unset /\ event_data = Unset
    /\ response = Unset /\ put_response = Unset /\ published = <<>> /\ trace = <<>>

\* The state of the components a specification leaves alone.
CacheQuiet ==
    /\ webhook_secret_cache = PyNone
    /\ secret_store = DictOf([SecretString |-> PyStr(<<"k1">>)])
    /\ gpc = [t \in Threads |-> "idle"]
    /\ gresponse = [t \in Threads |-> Unset]
    /\ gret = [t \in Threads |-> Unset]
    /\ store_log = <<>> /\ call_log = <<>> /\ call_start = 0

\* --------------------------------------------- the pure functions, applied

ApplyValidate ==
    /\ pure_fn = "validate_github_signature"
    /\ pure_out = Pending
    /\ pure_out' = validate_github_signature(pure_in[1], pure_in[2], pure_in[3])
    /\ UNCHANGED <<pure_fn, pure_in, notPure>>

InitValidate ==
    /\ pure_fn = "validate_github_signature"
    /\ pure_in \in ValidateInputs
    /\ pure_out = Pending
    /\ DestroyIdle /\ CacheQuiet /\ HandlerIdle /\ BusIdle

SpecValidate == InitValidate /\ [][ApplyValidate]_vars

ApplyParse ==
    /\ pure_fn = "parse_github_event"
    /\ pure_out = Pending
    /\ pure_out' = parse_github_event(pure_in[1], pure_in[2])
    /\ UNCHANGED <<pure_fn, pure_in, notPure>>

InitParse ==
    /\ pure_fn = "parse_github_event"
    /\ pure_in \in ParseInputs
    /\ pure_out = Pending
    /\ DestroyIdle /\ CacheQuiet /\ HandlerIdle /\ BusIdle

SpecParse == InitParse /\ [][ApplyParse]_vars

\* ------------------------------------------- destroy_branch.py: the handler

codebuild_name_prefix == "prefix"

artifact_bucket_name == "bucket"

\* f'{codebuild_name_prefix}-{branch}-{kind}'
ProjectName(branch, kind) == <<codebuild_name_prefix, "-">> \o branch \o <<"-", kind>>

\* The projects the provisioner may have left in CodeBuild.
CreateProjectNames == {ProjectName(b, "create") : b \in BranchNames \ {<<>>}}

\* detail = event.get('detail', {})
Detail == DictGet(devent, "detail", PyDict(EmptyDict))

\* branch = detail.get('referenceName')
Branch == DictGet(Detail.val, "referenceName", PyNone)

\* is_github = '/' in repo_name if repo_name else False
IsGithub ==
    LET repo_name == DictGet(Detail.val, "repositoryName", PyNone)
    IN  IF Truthy(repo_name) THEN \E i \in 1..Len(repo_name.val) : repo_name.val[i] = "/"
        ELSE FALSE

destroy_project_name == ProjectName(Branch.val, "destroy")

create_project_name == ProjectName(Branch.val, "create")

\* Faulty variant: the source location depends on the origin of the event.
CreateProjectCallByOrigin ==
    [op |-> "create_project",
     name |-> destroy_project_name,
     location |-> IF IsGithub THEN <<"github", "/">> \o Branch.val
                  ELSE <<artifact_bucket_name, "/">> \o Branch.val \o <<"/">>
                         \o create_project_name \o <<"/">>,
     buildspec |-> Branch.val]

\* The arguments of the create_project call.
CreateProjectCall ==
    [op |-> "create_project",
     name |-> destroy_project_name,
     location |-> <<artifact_bucket_name, "/">> \o Branch.val \o <<"/">>
                    \o create_project_name \o <<"/">>,
     buildspec |-> Branch.val]

\* The Lambda runtime invokes the handler with an event.
DestroyInvoke ==
    /\ dpc \in {"idle", "returned", "raised"}
    /\ \E e \in DeleteEvents : devent' = e
    /\ dpc' = "start"
    /\ calls' = <<>>
    /\ dlog' = <<>>
    /\ projects0' = projects
    /\ prev' = IF dpc = "idle" THEN prev
               ELSE [event |-> devent, calls |-> calls, dpc |-> dpc]
    /\ overlap' = FALSE
    /\ UNCHANGED <<projects, builds, notDestroy>>

\* logger.error of the except clause (line 104), followed by the bare raise.
LogAndRaise == dlog' = Append(dlog, "Error processing branch deletion") /\ dpc' = "raised"

\* Faulty variant: a branch reference is acted on whatever its name, the empty one
\* included.
DestroyCheckAnyName ==
    /\ dpc = "start"
    /\ dpc' = IF DictGet(Detail.val, "referenceType", PyNone) = PyStr(<<"branch">>)
                  /\ Branch.type = "str"
               THEN "create_project" ELSE "returned"
    /\ UNCHANGED <<devent, calls, projects, builds, dlog, projects0, prev, overlap, notDestroy>>

\* Faulty variant: an event equal to the one handled to its end just before is taken
\* for already handled and dropped.
DestroyCheckMemo ==
    /\ dpc = "start"
    /\ dpc' = IF DictGet(Detail.val, "referenceType", PyNone) = PyStr(<<"branch">>)
                  /\ Truthy(Branch)
                  /\ ~(prev # Unset /\ prev.event = devent /\ prev.dpc = "returned")
               THEN "create_project" ELSE "returned"
    /\ UNCHANGED <<devent, calls, projects, builds, dlog, projects0, prev, overlap, notDestroy>>

\* Lines 45-62: only a branch reference with a non-empty name is acted on; a branch
\* reference without one is logged (line 53) and dropped.
DestroyCheck ==
    /\ dpc = "start"
    /\ IF DictGet(Detail.val, "referenceType", PyNone) # PyStr(<<"branch">>)
       THEN dpc' = "returned" /\ dlog' = dlog
       ELSE IF ~Truthy(Branch)
       THEN dpc' = "returned" /\ dlog' = Append(dlog, "Missing required field")
       ELSE dpc' = "create_project" /\ dlog' = dlog
    /\ UNCHANGED <<devent, calls, projects, builds, projects0, prev, overlap, notDestroy>>

\* client.create_project: CodeBuild refuses a name it already holds; any call may fail.
DestroyCreateProject ==
    /\ dpc = "create_project"
    /\ calls' = Append(calls, CreateProjectCall)
    /\ \/ /\ destroy_project_name \notin projects
          /\ projects' = projects \cup {destroy_project_name}
          /\ dpc' = "start_build"
          /\ dlog' = dlog
       \/ /\ projects' = projects
          /\ LogAndRaise
    /\ UNCHANGED <<devent, builds, projects0, prev, overlap, notDestroy>>

\* Faulty variant: a failed start_build is issued once more before the error is raised.
DestroyStartBuildRetry ==
    /\ dpc = "start_build"
    /\ \/ /\ destroy_project_name \in projects
          /\ calls' = Append(calls, [op |-> "start_build", name |-> destroy_project_name])
          /\ builds' = builds \cup {destroy_project_name}
          /\ dpc' = "delete_destroy"
          /\ dlog' = dlog
       \/ /\ calls' = calls \o <<[op |-> "start_build", name |-> destroy_project_name],
                                 [op |-> "start_build", name |-> destroy_project_name]>>
          /\ builds' = builds
          /\ LogAndRaise
    /\ UNCHANGED <<devent, projects, projects0, prev, overlap, notDestroy>>

\* client.start_build: the run goes on in the build fleet.
DestroyStartBuild ==
    /\ dpc = "start_build"
    /\ calls' = Append(calls, [op |-> "start_build", name |-> destroy_project_name])
    /\ \/ /\ destroy_project_name \in projects
          /\ builds' = builds \cup {destroy_project_name}
          /\ dpc' = "delete_destroy"
          /\ dlog' = dlog
       \/ /\ builds' = builds
          /\ LogAndRaise
    /\ UNCHANGED <<devent, projects, projects0, prev, overlap, notDestroy>>

\* Faulty variant: the definition of the destroy project is left in CodeBuild.
DestroyDeleteDestroySkipped ==
    /\ dpc = "delete_destroy"
    /\ calls' = Append(calls, [op |-> "delete_project", name |-> destroy_project_name])
    /\ dpc' = "delete_create"
    /\ UNCHANGED <<devent, projects, builds, dlog, projects0, prev, overlap,
                   notDestroy>>

\* client.delete_project(name=destroy_project_name)
DestroyDeleteDestroy ==
    /\ dpc = "delete_destroy"
    /\ calls' = Append(calls, [op |-> "delete_project", name |-> destroy_project_name])
    /\ \/ /\ projects' = projects \ {destroy_project_name}
          /\ dpc' = "delete_create"
          /\ dlog' = dlog
       \/ /\ projects' = projects
          /\ LogAndRaise
    /\ UNCHANGED <<devent, builds, projects0, prev, overlap, notDestroy>>

\* Faulty variant: the create project is deleted only when CodeBuild holds it.
DestroyDeleteCreateIfPresent ==
    /\ dpc = "delete_create"
    /\ IF create_project_name \in projects
       THEN /\ calls' = Append(calls, [op |-> "delete_project",
                                       name |-> create_project_name])
            /\ projects' = projects \ {create_project_name}
       ELSE UNCHANGED <<calls, projects>>
    /\ dpc' = "returned"
    /\ UNCHANGED <<devent, builds, dlog, projects0, prev, overlap, notDestroy>>

\* client.delete_project(name=create_project_name): deleting an absent project succeeds.
DestroyDeleteCreate ==
    /\ dpc = "delete_create"
    /\ calls' = Append(calls, [op |-> "delete_project", name |-> create_project_name])
    /\ \/ /\ projects' = projects \ {create_project_name}
          /\ dpc' = "returned"
          /\ dlog' = dlog
       \/ /\ projects' = projects
          /\ LogAndRaise
    /\ UNCHANGED <<devent, builds, projects0, prev, overlap, notDestroy>>

NextDestroy ==
    \/ DestroyInvoke
    \/ DestroyCheck
    \/ DestroyCreateProject
    \/ DestroyStartBuild
    \/ DestroyDeleteDestroy
    \/ DestroyDeleteCreate

InitDestroy ==
    /\ PureIdle /\ CacheQuiet /\ HandlerIdle /\ BusIdle
    /\ dpc = "idle"
    /\ devent = EmptyDict
    /\ calls = <<>>
    /\ projects \in SUBSET CreateProjectNames
    /\ builds = {}
    /\ dlog = <<>>
    /\ projects0 = {}
    /\ prev = Unset
    /\ overlap = FALSE
    /\ other = NotRunning /\ prov = NotRunning

SpecDestroy == InitDestroy /\ [][NextDestroy]_vars

\* ------------------ the decommissioner with other invocations alongside it

\* The branch whose lifecycle is followed, and its Delete event.
LifeBranch == <<"x">>

LifeDelete ==
    DictOf([source |-> PyStr(<<"aws.codecommit">>),
            detail |-> PyDict(DictOf([referenceType |-> PyStr(<<"branch">>),
                                      referenceName |-> PyStr(LifeBranch),
                                      repositoryName |-> PyStr(<<"repo">>)]))])

\* The decommissioner is between its invocation and its end.
Active == dpc \notin {"idle", "returned", "raised"}

\* What a step of another invocation leaves alone in the decommissioner and elsewhere.
othersFrame ==
    <<dpc, devent, calls, dlog, projects0, prev, pureVars, cacheVars, histVars,
      handlerVars, busVars>>

LifeInvoke == DestroyInvoke /\ devent' = LifeDelete

\* A second decommissioner invocation for the same branch starts (its event is
\* actionable, lines 45-62).
OtherInvoke ==
    /\ other.pc = "idle"
    /\ other' = [pc |-> "create_project", branch |-> LifeBranch]
    /\ UNCHANGED <<projects, builds, overlap, prov, othersFrame>>

\* Its client.create_project (lines 66-83).
OtherCreateProject ==
    /\ other.pc = "create_project"
    /\ \/ /\ ProjectName(other.branch, "destroy") \notin projects
          /\ projects' = projects \cup {ProjectName(other.branch, "destroy")}
          /\ other' = [other EXCEPT !.pc = "start_build"]
       \/ /\ projects' = projects
          /\ other' = NotRunning
    /\ overlap' = (overlap \/ Active)
    /\ UNCHANGED <<builds, prov, othersFrame>>

\* Its client.start_build (lines 87-89).
OtherStartBuild ==
    /\ other.pc = "start_build"
    /\ \/ /\ ProjectName(other.branch, "destroy") \in projects
          /\ builds' = builds \cup {ProjectName(other.branch, "destroy")}
          /\ other' = [other EXCEPT !.pc = "delete_destroy"]
       \/ /\ builds' = builds
          /\ other' = NotRunning
    /\ overlap' = (overlap \/ Active)
    /\ UNCHANGED <<projects, prov, othersFrame>>

\* Its client.delete_project(name=destroy_project_name) (lines 93-95).
OtherDeleteDestroy ==
    /\ other.pc = "delete_destroy"
    /\ \/ /\ projects' = projects \ {ProjectName(other.branch, "destroy")}
          /\ other' = [other EXCEPT !.pc = "delete_create"]
       \/ /\ projects' = projects
          /\ other' = NotRunning
    /\ overlap' = (overlap \/ Active)
    /\ UNCHANGED <<builds, prov, othersFrame>>

\* Its client.delete_project(name=create_project_name) (lines 97-99), and its end.
OtherDeleteCreate ==
    /\ other.pc = "delete_create"
    /\ projects' \in {projects \ {ProjectName(other.branch, "create")}, projects}
    /\ other' = NotRunning
    /\ overlap' = (overlap \/ Active)
    /\ UNCHANGED <<builds, prov, othersFrame>>

\* The provisioner is invoked with a Create event for the branch.
ProvInvoke ==
    /\ prov.pc = "idle"
    /\ prov' = [pc |-> "create_project", branch |-> LifeBranch]
    /\ UNCHANGED <<projects, builds, overlap, other, othersFrame>>

\* The provisioner submits the job {prefix}-{branch}-create; a name CodeBuild already
\* holds is an unrecovered error.
ProvCreateProject ==
    /\ prov.pc = "create_project"
    /\ \/ /\ ProjectName(prov.branch, "create") \notin projects
          /\ projects' = projects \cup {ProjectName(prov.branch, "create")}
          /\ prov' = [prov EXCEPT !.pc = "start_build"]
       \/ /\ projects' = projects
          /\ prov' = NotRunning
    /\ overlap' = (overlap \/ Active)
    /\ UNCHANGED <<builds, other, othersFrame>>

\* The provisioner starts the job and returns without waiting for it.
ProvStartBuild ==
    /\ prov.pc = "start_build"
    /\ \/ /\ ProjectName(prov.branch, "create") \in projects
          /\ builds' = builds \cup {ProjectName(prov.branch, "create")}
       \/ builds' = builds
    /\ prov' = NotRunning
    /\ overlap' = (overlap \/ Active)
    /\ UNCHANGED <<projects, other, othersFrame>>

NextLifecycle ==
    \/ LifeInvoke
    \/ DestroyCheck
    \/ DestroyCreateProject
    \/ DestroyStartBuild
    \/ DestroyDeleteDestroy
    \/ DestroyDeleteCreate
    \/ OtherInvoke
    \/ OtherCreateProject
    \/ OtherStartBuild
    \/ OtherDeleteDestroy
    \/ OtherDeleteCreate
    \/ ProvInvoke
    \/ ProvCreateProject
    \/ ProvStartBuild

\* The branch starts Absent: CodeBuild holds none of its projects.
InitLifecycle == PureIdle /\ DestroyIdle /\ CacheQuiet /\ HandlerIdle /\ BusIdle

SpecLifecycle == InitLifecycle /\ [][NextLifecycle]_vars

\* ------------------------------- github_webhook_handler.py: the secret cache

\* get_webhook_secret is entered by thread t.
GsCall(t) ==
    /\ gpc[t] = "idle"
    /\ gpc' = [gpc EXCEPT ![t] = "check"]
    /\ gresponse' = [gresponse EXCEPT ![t] = Unset]
    /\ gret' = [gret EXCEPT ![t] = Unset]
    /\ UNCHANGED <<webhook_secret_cache, secret_store>>

\* Line 32: if _webhook_secret_cache is None.
GsCheck(t) ==
    /\ gpc[t] = "check"
    /\ gpc' = [gpc EXCEPT ![t] = IF webhook_secret_cache = PyNone THEN "fetch"
                                  ELSE "return"]
    /\ UNCHANGED <<webhook_secret_cache, secret_store, gresponse, gret>>

\* Faulty variant: a failed fetch empties the cache.
GsFetchFailureClearsCache(t) ==
    /\ gpc[t] = "fetch"
    /\ \/ /\ gresponse' = [gresponse EXCEPT ![t] = PyDict(secret_store)]
          /\ gpc' = [gpc EXCEPT ![t] = "assign"]
          /\ webhook_secret_cache' = webhook_secret_cache
       \/ /\ gresponse' = gresponse
          /\ gpc' = [gpc EXCEPT ![t] = "raised"]
          /\ webhook_secret_cache' = PyNone
    /\ UNCHANGED <<secret_store, gret>>

\* Lines 34-36: get_secret_value answers with what the store holds, or fails.
GsFetch(t) ==
    /\ gpc[t] = "fetch"
    /\ \/ /\ gresponse' = [gresponse EXCEPT ![t] = PyDict(secret_store)]
          /\ gpc' = [gpc EXCEPT ![t] = "assign"]
       \/ /\ gresponse' = gresponse
          /\ gpc' = [gpc EXCEPT ![t] = "raised"]
    /\ UNCHANGED <<webhook_secret_cache, secret_store, gret>>

\* Faulty variant: the fetched secret is returned but never memoized.
GsAssignNoMemo(t) ==
    /\ gpc[t] = "assign"
    /\ IF "SecretString" \in DOMAIN gresponse[t].val
       THEN /\ gret' = [gret EXCEPT ![t] = gresponse[t].val["SecretString"]]
            /\ gpc' = [gpc EXCEPT ![t] = "returned"]
       ELSE /\ gret' = gret
            /\ gpc' = [gpc EXCEPT ![t] = "raised"]
    /\ UNCHANGED <<webhook_secret_cache, secret_store, gresponse>>

\* Line 37: _webhook_secret_cache = response['SecretString'] (KeyError without it).
GsAssign(t) ==
    /\ gpc[t] = "assign"
    /\ IF "SecretString" \in DOMAIN gresponse[t].val
       THEN /\ webhook_secret_cache' = gresponse[t].val["SecretString"]
            /\ gpc' = [gpc EXCEPT ![t] = "return"]
       ELSE /\ webhook_secret_cache' = webhook_secret_cache
            /\ gpc' = [gpc EXCEPT ![t] = "raised"]
    /\ UNCHANGED <<secret_store, gresponse, gret>>

\* Line 43: return _webhook_secret_cache.
GsReturn(t) ==
    /\ gpc[t] = "return"
    /\ gret' = [gret EXCEPT ![t] = webhook_secret_cache]
    /\ gpc' = [gpc EXCEPT ![t] = "returned"]
    /\ UNCHANGED <<webhook_secret_cache, secret_store, gresponse>>

\* The caller takes the result (or the exception) of thread t's call.
GsDone(t) ==
    /\ gpc[t] \in {"returned", "raised"}
    /\ gpc' = [gpc EXCEPT ![t] = "idle"]
    /\ UNCHANGED <<webhook_secret_cache, secret_store, gresponse, gret>>

\* The outcome of thread t's finished call.
GsOutcome(t) == IF gpc[t] = "raised" THEN Raise("Exception") ELSE Return(gret[t])

\* ------------------------- a sequence of get_webhook_secret calls, one thread

MainThread == 1

notSecret == <<pureVars, destroyVars, handlerVars, lifeVars, busVars>>

SecretCall ==
    /\ Len(call_log) < MaxSecretCalls
    /\ GsCall(MainThread)
    /\ call_start' = Len(store_log)
    /\ UNCHANGED <<store_log, call_log, notSecret>>

SecretCheck == GsCheck(MainThread) /\ UNCHANGED <<histVars, notSecret>>

SecretFetch ==
    /\ GsFetch(MainThread)
    /\ store_log' = Append(store_log, IF gpc'[MainThread] = "raised" THEN "error"
                                      ELSE "ok")
    /\ UNCHANGED <<call_log, call_start, notSecret>>

SecretAssign == GsAssign(MainThread) /\ UNCHANGED <<histVars, notSecret>>

SecretReturn == GsReturn(MainThread) /\ UNCHANGED <<histVars, notSecret>>

SecretDone ==
    /\ GsDone(MainThread)
    /\ call_log' = Append(call_log, [store_calls |-> Len(store_log) - call_start,
                                     outcome |-> GsOutcome(MainThread),
                                     cache_after |-> webhook_secret_cache])
    /\ UNCHANGED <<store_log, call_start, notSecret>>

NextSecret ==
    \/ SecretCall
    \/ SecretCheck
    \/ SecretFetch
    \/ SecretAssign
    \/ SecretReturn
    \/ SecretDone

InitSecret ==
    /\ PureIdle /\ DestroyIdle /\ HandlerIdle /\ BusIdle
    /\ webhook_secret_cache = PyNone
    /\ secret_store \in SecretStores
    /\ gpc = [t \in Threads |-> "idle"]
    /\ gresponse = [t \in Threads |-> Unset]
    /\ gret = [t \in Threads |-> Unset]
    /\ store_log = <<>> /\ call_log = <<>> /\ call_start = 0

SpecSecret == InitSecret /\ [][NextSecret]_vars

\* ------------------------ get_webhook_secret called by concurrent threads

ConcCall == (\E t \in Threads : GsCall(t)) /\ UNCHANGED <<histVars, notSecret>>

ConcCheck == (\E t \in Threads : GsCheck(t)) /\ UNCHANGED <<histVars, notSecret>>

ConcFetch == (\E t \in Threads : GsFetch(t)) /\ UNCHANGED <<histVars, notSecret>>

ConcAssign == (\E t \in Threads : GsAssign(t)) /\ UNCHANGED <<histVars, notSecret>>

ConcReturn == (\E t \in Threads : GsReturn(t)) /\ UNCHANGED <<histVars, notSecret>>

ConcDone == (\E t \in Threads : GsDone(t)) /\ UNCHANGED <<histVars, notSecret>>

NextConc ==
    \/ ConcCall
    \/ ConcCheck
    \/ ConcFetch
    \/ ConcAssign
    \/ ConcReturn
    \/ ConcDone

\* The threads of one process share the module global; each step of a thread is
\* atomic (the interpreter lock) and the steps interleave freely.
SpecConc == InitSecret /\ [][NextConc]_vars

\* ----------------------------- github_webhook_handler.py: the Lambda handler

EVENT_BUS_NAME == "default"

notHandler == <<pureVars, destroyVars, histVars, lifeVars, busVars>>

Response(code, message) == [statusCode |-> code, message |-> message]

\* Faulty variant: one except clause answers every exception.
ErrorResponseAlways500(e) == Response(500, "Internal server error")

\* The except clauses of the handler: 400 for a JSONDecodeError, 500 for the rest.
ErrorResponse(e) ==
    IF e = "JSONDecodeError" THEN Response(400, "Invalid JSON")
    ELSE Response(500, "Internal server error")

\* base64.b64decode(body_str).decode('utf-8')
B64Decode(b) == IF b.encoding = "base64" THEN Return(b.text) ELSE Raise("binascii.Error")

\* The body string of the event, decoded when it is flagged as base64.
DecodedBody(event) ==
    IF event.isBase64Encoded THEN B64Decode(event.body) ELSE Return(event.body.text)

\* json.loads(body_str)
JsonLoads(text) == IF text.wellformed THEN Return(text.value) ELSE Raise("JSONDecodeError")

\* Faulty variant: the event type is left as it is.
CapitalizeNot(w) == w

\* str.capitalize() of an event type.
Capitalize(w) ==
    CASE w = "create" -> "Create"
      [] w = "delete" -> "Delete"
      [] OTHER -> w

\* The entry publish_to_eventbridge hands to put_events.
EventEntry(data) ==
    [Source |-> "github.webhook",
     DetailType |-> <<"GitHub Branch ", Capitalize(data.eventType.val[1])>>,
     Detail |-> JsonText(PyDict([referenceType |-> data.referenceType,
                                 referenceName |-> data.referenceName,
                                 repositoryName |-> data.repositoryName,
                                 sender |-> data.sender,
                                 timestamp |-> data.timestamp])),
     EventBusName |-> EVENT_BUS_NAME]

\* API Gateway invokes the handler with a request; the locals start unassigned.
HandlerReceive ==
    /\ hpc = "idle"
    /\ \E r \in WebhookRequests : request' = r
    /\ hpc' = "decode"
    /\ UNCHANGED <<body_str, signature, webhook_secret, body, event_data, response,
                   put_response, published, trace, cacheVars, notHandler>>

\* Lines 201-213: the body string and the signature header are read, then
\* get_webhook_secret is called.
HandlerDecode ==
    /\ hpc = "decode"
    /\ LET d == DecodedBody(request)
       IN  IF Raised(d)
           THEN /\ response' = ErrorResponse(d.exc)
                /\ hpc' = "done"
                /\ UNCHANGED <<body_str, signature, trace, cacheVars>>
           ELSE /\ body_str' = d.ret
                /\ signature' = DictGet(request.headers, "X-Hub-Signature-256",
                                    DictGet(request.headers, "x-hub-signature-256",
                                            PyStr(<<>>)))
                /\ hpc' = "get_secret"
                /\ trace' = Append(trace, "get_webhook_secret")
                /\ GsCall(MainThread)
                /\ UNCHANGED response
    /\ UNCHANGED <<request, webhook_secret, body, event_data, put_response, published,
                   notHandler>>

\* get_webhook_secret runs on the handler's thread.
HandlerSecretStep ==
    /\ hpc = "get_secret"
    /\ \/ GsCheck(MainThread)
       \/ GsFetch(MainThread)
       \/ GsAssign(MainThread)
       \/ GsReturn(MainThread)
    /\ UNCHANGED <<handlerVars, notHandler>>

\* Faulty variant: an exception of get_webhook_secret leaves the handler uncaught.
HandlerGotSecretPropagates ==
    /\ hpc = "get_secret"
    /\ GsDone(MainThread)
    /\ LET o == GsOutcome(MainThread)
       IN  IF Raised(o)
           THEN hpc' = "raised" /\ UNCHANGED webhook_secret
           ELSE webhook_secret' = o.ret /\ hpc' = "validate"
    /\ UNCHANGED <<request, body_str, signature, body, event_data, response,
                   put_response, published, trace, notHandler>>

\* Line 213: the secret is back, or the exception reaches the handler's except clause.
HandlerGotSecret ==
    /\ hpc = "get_secret"
    /\ GsDone(MainThread)
    /\ LET o == GsOutcome(MainThread)
       IN  IF Raised(o)
           THEN /\ response' = ErrorResponse(o.exc)
                /\ hpc' = "done"
                /\ UNCHANGED webhook_secret
           ELSE /\ webhook_secret' = o.ret
                /\ hpc' = "validate"
                /\ UNCHANGED response
    /\ UNCHANGED <<request, body_str, signature, body, event_data, put_response,
                   published, trace, notHandler>>

\* Lines 214-219: an invalid signature is answered 401.
HandlerValidate ==
    /\ hpc = "validate"
    /\ trace' = Append(trace, "validate_github_signature")
    /\ LET o == validate_github_signature(Utf8Encode(body_str), signature.val,
                                          webhook_secret.val)
       IN  IF Raised(o)
           THEN response' = ErrorResponse(o.exc) /\ hpc' = "done"
           ELSE IF ~Truthy(o.ret)
           THEN response' = Response(401, "Invalid signature") /\ hpc' = "done"
           ELSE response' = response /\ hpc' = "json_loads"
    /\ UNCHANGED <<request, body_str, signature, webhook_secret, body, event_data,
                   put_response, published, cacheVars, notHandler>>

\* Line 222: body = json.loads(body_str).
HandlerJsonLoads ==
    /\ hpc = "json_loads"
    /\ trace' = Append(trace, "json.loads")
    /\ LET o == JsonLoads(body_str)
       IN  IF Raised(o)
           THEN response' = ErrorResponse(o.exc) /\ hpc' = "done" /\ body' = body
           ELSE response' = response /\ hpc' = "parse" /\ body' = o.ret
    /\ UNCHANGED <<request, body_str, signature, webhook_secret, event_data,
                   put_response, published, cacheVars, notHandler>>

\* Faulty variant: an event that is no branch event is answered as an error.
HandlerParseNotApplicableIsError ==
    /\ hpc = "parse"
    /\ trace' = Append(trace, "parse_github_event")
    /\ LET o == parse_github_event(request.headers, body)
       IN  IF Raised(o)
           THEN response' = ErrorResponse(o.exc) /\ hpc' = "done"
                /\ event_data' = event_data
           ELSE IF Truthy(o.ret)
           THEN response' = response /\ hpc' = "publish" /\ event_data' = o.ret
           ELSE /\ response' = Response(400, "Not a branch event")
                /\ hpc' = "done"
                /\ event_data' = o.ret
    /\ UNCHANGED <<request, body_str, signature, webhook_secret, body, put_response,
                   published, cacheVars, notHandler>>

\* Lines 225-240: the event is normalised; one that is no branch event is answered
\* 200 without being published.
HandlerParse ==
    /\ hpc = "parse"
    /\ trace' = Append(trace, "parse_github_event")
    /\ LET o == parse_github_event(request.headers, body)
       IN  IF Raised(o)
           THEN response' = ErrorResponse(o.exc) /\ hpc' = "done"
                /\ event_data' = event_data
           ELSE IF Truthy(o.ret)
           THEN response' = response /\ hpc' = "publish" /\ event_data' = o.ret
           ELSE /\ response' = Response(200, "Event received but not processed "
                                              \o "(not a branch event)")
                /\ hpc' = "done"
                /\ event_data' = o.ret
    /\ UNCHANGED <<request, body_str, signature, webhook_secret, body, put_response,
                   published, cacheVars, notHandler>>

\* Faulty variant: an entry EventBridge reports as failed is sent a second time.
HandlerPublishRetries ==
    /\ hpc = "publish"
    /\ \/ /\ put_response' = [FailedEntryCount |-> 0]
          /\ trace' = Append(trace, "put_events")
          /\ published' = Append(published, EventEntry(event_data.val))
          /\ response' = Response(200, "Event processed successfully")
       \/ /\ put_response' = [FailedEntryCount |-> 0]
          /\ trace' = trace \o <<"put_events", "put_events">>
          /\ published' = Append(published, EventEntry(event_data.val))
          /\ response' = Response(200, "Event processed successfully")
       \/ /\ put_response' = put_response
          /\ trace' = Append(trace, "put_events")
          /\ published' = published
          /\ response' = ErrorResponse("ClientError")
    /\ hpc' = "done"
    /\ UNCHANGED <<request, body_str, signature, webhook_secret, body, event_data,
                   cacheVars, notHandler>>

\* Lines 229-234 and publish_to_eventbridge: put_events raises, or answers with a
\* FailedEntryCount of 0 (the entry is accepted) or 1; only an exception is an error.
HandlerPublish ==
    /\ hpc = "publish"
    /\ trace' = Append(trace, "put_events")
    /\ \/ /\ put_response' = [FailedEntryCount |-> 0]
          /\ published' = Append(published, EventEntry(event_data.val))
          /\ response' = Response(200, "Event processed successfully")
       \/ /\ put_response' = [FailedEntryCount |-> 1]
          /\ published' = published
          /\ response' = Response(200, "Event processed successfully")
       \/ /\ put_response' = put_response
          /\ published' = published
          /\ response' = ErrorResponse("ClientError")
    /\ hpc' = "done"
    /\ UNCHANGED <<request, body_str, signature, webhook_secret, body, event_data,
                   cacheVars, notHandler>>

\* The response goes back to API Gateway and the invocation's locals are gone; the
\* process (and its secret cache) stays for the next invocation.
HandlerReturn ==
    /\ hpc = "done"
    /\ hpc' = "idle"
    /\ request' = Unset /\ body_str' = Unset /\ signature' = Unset
    /\ webhook_secret' = Unset /\ body' = Unset /\ event_data' = Unset
    /\ response' = Unset /\ put_response' = Unset /\ published' = <<>>
    /\ trace' = <<>>
    /\ UNCHANGED <<cacheVars, notHandler>>

Next ==
    \/ HandlerReceive
    \/ HandlerDecode
    \/ HandlerSecretStep
    \/ HandlerGotSecret
    \/ HandlerValidate
    \/ HandlerJsonLoads
    \/ HandlerParse
    \/ HandlerPublish
    \/ HandlerReturn

Init ==
    /\ PureIdle /\ DestroyIdle /\ HandlerIdle /\ BusIdle
    /\ webhook_secret_cache = PyNone
    /\ secret_store \in SecretStores
    /\ gpc = [t \in Threads |-> "idle"]
    /\ gresponse = [t \in Threads |-> Unset]
    /\ gret = [t \in Threads |-> Unset]
    /\ store_log = <<>> /\ call_log = <<>> /\ call_start = 0

Spec == Init /\ [][Next]_vars

\* ------------------- github_webhook_construct.py: the EventBridge rules

\* The Lambda functions the stack hands to the construct.
create_branch_function == "LambdaTriggerCreateBranch"

destroy_branch_function == "LambdaTriggerDestroyBranch"

\* The bus the construct is given: the rules listen on it and EVENT_BUS_NAME names it.
event_bus_name == "default"

\* Faulty variant: the two rules with their targets exchanged.
RulesSwapped ==
    {[source |-> "github.webhook", detail_type |-> <<"GitHub Branch ", "Create">>,
      event_bus |-> event_bus_name, target |-> destroy_branch_function],
     [source |-> "github.webhook", detail_type |-> <<"GitHub Branch ", "Delete">>,
      event_bus |-> event_bus_name, target |-> create_branch_function]}

\* GitHubBranchCreateRule and GitHubBranchDeleteRule with their targets.
Rules ==
    {[source |-> "github.webhook", detail_type |-> <<"GitHub Branch ", "Create">>,
      event_bus |-> event_bus_name, target |-> create_branch_function],
     [source |-> "github.webhook", detail_type |-> <<"GitHub Branch ", "Delete">>,
      event_bus |-> event_bus_name, target |-> destroy_branch_function]}

\* An event pattern matches an entry of its bus on source and detail-type.
Matches(rule, entry) ==
    /\ entry.EventBusName = rule.event_bus
    /\ entry.Source = rule.source
    /\ entry.DetailType = rule.detail_type

\* The functions the rules invoke for an entry.
Targets(entry) == {rule.target : rule \in {r \in Rules : Matches(r, entry)}}

\* The event a target is invoked with: the entry's source, detail-type and parsed
\* detail.
Envelope(entry) ==
    [k \in {"source", "detail-type", "detail"} |->
        CASE k = "source" -> PyStr(<<entry.Source>>)
          [] k = "detail-type" -> PyStr(entry.DetailType)
          [] OTHER -> entry.Detail.value]

\* Payloads followed through the bus: refs with and without the branch prefix.
RouteObjects ==
    {PyDict(DictOf(r)) :
        r \in [ref : {PyStr(<<RefsHeads, "demo">>), PyStr(<<"demo">>)},
               ref_type : {PyStr(<<"branch">>), PyStr(<<"tag">>)},
               created : Flags, deleted : Flags,
               repository : {Repository}, sender : {Absent, Sender}]}

\* Requests followed through the bus: validly signed under the stored secret.
RouteRequests ==
    {[headers |-> WebhookHeaders(FALSE, ev,
                      PyStr(<<Sha256Prefix>>
                            \o HmacSha256Hex(Utf8Encode(<<"k1">>),
                                             Utf8Encode(JsonText(o))))),
      body |-> PlainBody(JsonText(o)),
      isBase64Encoded |-> FALSE] : ev \in GithubEvents, o \in RouteObjects}

\* API Gateway invokes the handler with a request.
RouteReceive ==
    /\ hpc = "idle"
    /\ nreq < MaxWebhookCalls
    /\ nreq' = nreq + 1
    /\ \E r \in RouteRequests : request' = r
    /\ hpc' = "decode"
    /\ UNCHANGED <<body_str, signature, webhook_secret, body, event_data, response,
                   put_response, published, trace, cacheVars, pureVars, destroyVars,
                   histVars, lifeVars, bus, invoked>>

\* Lines 229-234 and publish_to_eventbridge, seen from EventBridge: an entry put_events
\* accepts is on the bus, together with the event data it was built from.
RoutePublish ==
    /\ hpc = "publish"
    /\ trace' = Append(trace, "put_events")
    /\ \/ /\ put_response' = [FailedEntryCount |-> 0]
          /\ published' = Append(published, EventEntry(event_data.val))
          /\ bus' = bus \cup {[entry |-> EventEntry(event_data.val),
                               event_data |-> event_data.val]}
          /\ response' = Response(200, "Event processed successfully")
       \/ /\ put_response' = [FailedEntryCount |-> 1]
          /\ published' = published
          /\ bus' = bus
          /\ response' = Response(200, "Event processed successfully")
       \/ /\ put_response' = put_response
          /\ published' = published
          /\ bus' = bus
          /\ response' = ErrorResponse("ClientError")
    /\ hpc' = "done"
    /\ UNCHANGED <<request, body_str, signature, webhook_secret, body, event_data,
                   cacheVars, pureVars, destroyVars, histVars, lifeVars, invoked, nreq>>

\* EventBridge delivers an entry: every rule that matches it invokes its target.
RouteDeliver ==
    /\ \E e \in bus :
          /\ bus' = bus \ {e}
          /\ invoked' = invoked \cup {[function |-> f, event |-> Envelope(e.entry),
                                       event_data |-> e.event_data] :
                                          f \in Targets(e.entry)}
    /\ UNCHANGED <<nreq, handlerVars, cacheVars, pureVars, destroyVars, histVars,
                   lifeVars>>

NextRoute ==
    \/ RouteReceive
    \/ HandlerDecode
    \/ HandlerSecretStep
    \/ HandlerGotSecret
    \/ HandlerValidate
    \/ HandlerJsonLoads
    \/ HandlerParse
    \/ RoutePublish
    \/ HandlerReturn
    \/ RouteDeliver

InitRoute == PureIdle /\ DestroyIdle /\ HandlerIdle /\ CacheQuiet /\ BusIdle

\* EventBridge keeps trying to deliver an entry it accepted.
SpecRoute == InitRoute /\ [][NextRoute]_vars /\ WF_vars(RouteDeliver)

\* ------------------------------------------------------------------ claims

\* s is a prefix of t.
IsPrefix(s, t) == Len(s) <= Len(t) /\ \A i \in 1..Len(s) : s[i] = t[i]

\* The calls issued so far, as <<operation, project name>>.
IssuedCalls == [i \in 1..Len(calls) |-> <<calls[i].op, calls[i].name>>]

\* The teardown sequence of branch b.
TeardownSequence(b) ==
    <<<<"create_project", ProjectName(b, "destroy")>>,
      <<"start_build", ProjectName(b, "destroy")>>,
      <<"delete_project", ProjectName(b, "destroy")>>,
      <<"delete_project", ProjectName(b, "create")>>>>

\* The event under handling names a branch reference with a non-empty name.
Actionable ==
    /\ dpc # "idle"
    /\ DictGet(Detail.val, "referenceType", PyNone) = PyStr(<<"branch">>)
    /\ "referenceName" \in DOMAIN Detail.val
    /\ Detail.val.referenceName.type = "str"
    /\ Detail.val.referenceName.val # <<>>

\* C1: while a Delete event for branch B is handled, the CodeBuild calls issued are a
\* prefix of create_project(destroy), start_build(destroy), delete_project(destroy),
\* delete_project(create); when the handler returns (no call raised) all four were
\* issued, whether or not the create project existed.
C1_TeardownOrder ==
    Actionable =>
        /\ IsPrefix(IssuedCalls, TeardownSequence(Detail.val.referenceName.val))
        /\ dpc = "returned" =>
              IssuedCalls = TeardownSequence(Detail.val.referenceName.val)

\* C1 witness: a teardown ran to its end although the create project never existed.
C1_Witness ==
    /\ Actionable
    /\ dpc = "returned"
    /\ Len(calls) = 4
    /\ ProjectName(Detail.val.referenceName.val, "create") \notin projects0

\* The expected signature header of a payload under a secret.
ExpectedSignature(payload, secret) ==
    <<Sha256Prefix>> \o HmacSha256Hex(Utf8Encode(secret), payload)

\* C3: validate_github_signature(B, S, K) returns True exactly when S is "sha256="
\* followed by the hex HMAC-SHA256 of B under K, and returns False for every other S.
C3_ValidatesExactlyExpected ==
    (pure_fn = "validate_github_signature" /\ pure_out # Pending) =>
        pure_out = Return(PyBool(pure_in[2] = ExpectedSignature(pure_in[1], pure_in[3])))

\* o is a returned branch event of the given type and reference name.
IsEvent(o, eventType, referenceName) ==
    /\ "ret" \in DOMAIN o
    /\ o.ret.type = "dict"
    /\ o.ret.val.eventType = PyStr(<<eventType>>)
    /\ o.ret.val.referenceName = referenceName

\* The input of parse_github_event is a push whose ref lies under refs/heads/.
PushUnderRefsHeads ==
    /\ pure_fn = "parse_github_event"
    /\ pure_out # Pending
    /\ GithubEventHeader(pure_in[1]) = PyStr(<<"push">>)
    /\ pure_in[2].type = "dict"
    /\ "ref" \in DOMAIN pure_in[2].val
    /\ StartsWith(pure_in[2].val.ref.val, RefsHeads)

\* C7: a push with ref "refs/heads/" + X and a true created flag normalises to Create,
\* with a true deleted flag (and created not true) to Delete, and referenceName is
\* exactly X, the rest of the ref after its leading prefix.
C7_PushNameIsSuffix ==
    PushUnderRefsHeads =>
        LET b == pure_in[2].val
            X == PyStr(Tail(b.ref.val))
            created == Truthy(DictGet(b, "created", PyNone))
            deleted == Truthy(DictGet(b, "deleted", PyNone))
        IN  /\ created => IsEvent(pure_out, "create", X)
            /\ (deleted /\ ~created) => IsEvent(pure_out, "delete", X)

\* C8: an explicit create (delete) event with an object payload normalises to Create
\* (Delete) with referenceName the payload's ref when its ref_type is "branch", and to
\* None (not applicable) for every other ref_type.
C8_ExplicitNeedsBranchRefType ==
    \A e \in {"create", "delete"} :
        (/\ pure_fn = "parse_github_event"
         /\ pure_out # Pending
         /\ GithubEventHeader(pure_in[1]) = PyStr(<<e>>)
         /\ pure_in[2].type = "dict") =>
            IF DictGet(pure_in[2].val, "ref_type", PyNone) = PyStr(<<"branch">>)
            THEN IsEvent(pure_out, e, DictGet(pure_in[2].val, "ref", PyNone))
            ELSE pure_out = Return(PyNone)

\* C8 witness: an explicit delete of branch x was normalised, and an explicit create
\* of a tag is the other case.
C8_Witness ==
    /\ pure_fn = "parse_github_event"
    /\ GithubEventHeader(pure_in[1]) = PyStr(<<"delete">>)
    /\ pure_in[2].type = "dict"
    /\ DictGet(pure_in[2].val, "ref_type", PyNone) = PyStr(<<"branch">>)
    /\ IsEvent(pure_out, "delete", PyStr(<<"x">>))

\* The handler has answered a request whose signature it checked: the body was
\* decoded and the secret obtained.
SignatureChecked == hpc = "done" /\ webhook_secret # Unset

\* The signature header the request carries is the expected one for its body under
\* the secret the store holds.
SignatureValid ==
    /\ SignatureChecked
    /\ signature.val = ExpectedSignature(Utf8Encode(body_str),
                                         secret_store["SecretString"].val)

\* C2: a request whose signature header is missing, lacks the "sha256=" prefix or
\* differs from the expected signature of its body is answered 401 "Invalid
\* signature"; its body is not normalised and nothing is published.
C2_InvalidSignatureIs401 ==
    (SignatureChecked /\ ~SignatureValid) =>
        /\ response = Response(401, "Invalid signature")
        /\ trace = <<"get_webhook_secret", "validate_github_signature">>
        /\ published = <<>>

\* C4: the answer 200 "Event processed successfully" is given only when put_events
\* accepted the entry (FailedEntryCount is 0).
C4_SuccessMeansAccepted ==
    (hpc = "done" /\ response = Response(200, "Event processed successfully")) =>
        /\ put_response = [FailedEntryCount |-> 0]
        /\ Len(published) = 1

\* C5: a validly signed request whose body is no well-formed JSON is answered 400;
\* the handler stops at json.loads and nothing is published.
C5_MalformedJsonIs400 ==
    (SignatureValid /\ ~body_str.wellformed) =>
        /\ response = Response(400, "Invalid JSON")
        /\ trace = <<"get_webhook_secret", "validate_github_signature", "json.loads">>
        /\ published = <<>>

\* C5 witness: a validly signed malformed body was answered.
C5_Witness == SignatureValid /\ ~body_str.wellformed /\ response.statusCode = 400

\* The request is validly signed, well formed, and no branch event.
NotApplicable ==
    /\ SignatureValid
    /\ body_str.wellformed
    /\ parse_github_event(request.headers, body_str.value) = Return(PyNone)

\* C6: a validly signed, well-formed request that normalises to None is answered 200
\* with the "not processed" message, and put_events is not called.
C6_NotApplicableIs200 ==
    NotApplicable =>
        /\ response = Response(200, "Event received but not processed "
                                    \o "(not a branch event)")
        /\ "put_events" \notin {trace[i] : i \in 1..Len(trace)}
        /\ published = <<>>

\* C6 witness: a validly signed push with neither flag set was answered.
C6_Witness ==
    /\ NotApplicable
    /\ GithubEventHeader(request.headers) = PyStr(<<"push">>)
    /\ response.statusCode = 200

\* C9: every entry the handler publishes carries a referenceName that is a non-empty
\* string, and is a branch Create or Delete.
C9_PublishedEventIsWellFormed ==
    \A i \in 1..Len(published) :
        LET detail == published[i].Detail.value.val
        IN  /\ detail.referenceName.type = "str"
            /\ detail.referenceName.val # <<>>
            /\ published[i].DetailType \in {<<"GitHub Branch ", "Create">>,
                                             <<"GitHub Branch ", "Delete">>}

\* C10: in a sequence of get_webhook_secret calls a call queries the store (once)
\* exactly when no earlier call succeeded; a call that succeeds returns the stored
\* secret and leaves it in the cache, a call that fails raises and leaves the cache
\* empty.
C10_FetchedUntilFirstSuccess ==
    \A i \in 1..Len(call_log) :
        LET c == call_log[i]
            earlier == \E j \in 1..(i - 1) : ~Raised(call_log[j].outcome)
        IN  /\ c.store_calls = IF earlier THEN 0 ELSE 1
            /\ IF Raised(c.outcome)
               THEN c.cache_after = PyNone
               ELSE /\ c.outcome.ret = secret_store["SecretString"]
                    /\ c.cache_after = c.outcome.ret

\* C10 witness: a failed call, then a successful fetch, then a call served from the
\* cache without a store call.
C10_Witness ==
    /\ Len(call_log) >= 3
    /\ Raised(call_log[1].outcome)
    /\ ~Raised(call_log[2].outcome)
    /\ ~Raised(call_log[3].outcome)
    /\ call_log[3].store_calls = 0
    /\ Len(store_log) = 2

\* The event under handling is not actionable: its referenceType is not "branch", or
\* its referenceName is missing, null or empty.
NotActionable ==
    /\ dpc # "idle"
    /\ \/ DictGet(Detail.val, "referenceType", PyNone) # PyStr(<<"branch">>)
       \/ "referenceName" \notin DOMAIN Detail.val
       \/ Detail.val.referenceName \in {PyNone, PyStr(<<>>)}

\* C11: an invocation in which a CodeBuild call failed has logged the error and raised
\* it: the failed call is the last one issued, every call was issued at most once (the
\* calls are a prefix of the teardown sequence), and CodeBuild holds what the calls
\* before the failed one left (nothing is rolled back).
C11_FailureIsRaisedNotRetried ==
    /\ ("Error processing branch deletion" \in {dlog[i] : i \in 1..Len(dlog)})
          <=> dpc = "raised"
    /\ dpc = "raised" =>
          LET succeeded == Len(calls) - 1
              d == ProjectName(Branch.val, "destroy")
          IN  /\ Len(calls) \in 1..4
              /\ IsPrefix(IssuedCalls, TeardownSequence(Branch.val))
              /\ dlog = <<"Error processing branch deletion">>
              /\ projects = CASE succeeded = 0 -> projects0
                               [] succeeded \in {1, 2} -> projects0 \cup {d}
                               [] OTHER -> (projects0 \cup {d}) \ {d}
              /\ succeeded >= 2 => d \in builds

\* C11 witness: delete_project(destroy) failed after create_project and start_build
\* succeeded; the destroy project and its build are still there.
C11_Witness ==
    /\ dpc = "raised"
    /\ Len(calls) = 3
    /\ ProjectName(Branch.val, "destroy") \in projects
    /\ ProjectName(Branch.val, "destroy") \in builds

\* C12: while and after an event that is not actionable is handled, no CodeBuild call is
\* issued, CodeBuild is left as it was, and the handler returns without raising.
C12_NotActionableIsDropped ==
    NotActionable =>
        /\ calls = <<>>
        /\ projects = projects0
        /\ dpc \in {"start", "returned"}

\* C12 witness: a branch reference with an empty name was dropped.
C12_Witness ==
    /\ NotActionable
    /\ dpc = "returned"
    /\ DictGet(Detail.val, "referenceType", PyNone) = PyStr(<<"branch">>)
    /\ Branch = PyStr(<<>>)

\* The running invocation and the one before it have both ended.
BothEnded == prev # Unset /\ dpc \in {"returned", "raised"}

\* C13: when the event just handled is the one handled before it, the two invocations
\* issued the same calls with the same arguments as far as both got; when neither
\* met a failing call the two call sequences are equal.
C13_ReplayIssuesSameCalls ==
    (BothEnded /\ prev.event = devent) =>
        /\ IsPrefix(calls, prev.calls) \/ IsPrefix(prev.calls, calls)
        /\ (dpc = "returned" /\ prev.dpc = "returned") => calls = prev.calls

\* C13 witness: the same Delete event was handled twice in a row, four calls each time.
C13_Witness ==
    /\ BothEnded
    /\ prev.event = devent
    /\ dpc = "returned" /\ prev.dpc = "returned"
    /\ Len(calls) = 4 /\ Len(prev.calls) = 4

\* The origin of an event handed to the decommissioner.
Origin(e) == DictGet(e, "source", PyNone)

\* Two events name the same reference.
SameReference(e1, e2) ==
    LET d1 == DictGet(e1, "detail", PyDict(EmptyDict)).val
        d2 == DictGet(e2, "detail", PyDict(EmptyDict)).val
    IN  /\ DictGet(d1, "referenceType", PyNone) = DictGet(d2, "referenceType", PyNone)
        /\ DictGet(d1, "referenceName", PyNone) = DictGet(d2, "referenceName", PyNone)

\* C16: two events of different origin that name the same reference make the
\* decommissioner issue the same calls with the same arguments (as far as both
\* invocations got; equal sequences when neither met a failing call), whatever their
\* repositoryName, sender and timestamp.
C16_SameTeardownWhateverOrigin ==
    (/\ BothEnded
     /\ Origin(prev.event) # Origin(devent)
     /\ SameReference(prev.event, devent)) =>
        /\ IsPrefix(calls, prev.calls) \/ IsPrefix(prev.calls, calls)
        /\ (dpc = "returned" /\ prev.dpc = "returned") => calls = prev.calls

\* C16 witness: a native Delete event and a webhook Delete event for the same branch
\* were both handled to the end.
C16_Witness ==
    /\ BothEnded
    /\ Origin(prev.event) = PyStr(<<"aws.codecommit">>)
    /\ Origin(devent) = PyStr(<<"github.webhook">>)
    /\ SameReference(prev.event, devent)
    /\ dpc = "returned" /\ prev.dpc = "returned"
    /\ Len(calls) = 4 /\ Len(prev.calls) = 4

\* C15: every entry the handler publishes has the DetailType "GitHub Branch Create"
\* when the normalised eventType is create and "GitHub Branch Delete" when it is
\* delete, the source 'github.webhook', a JSON object as its detail and the configured
\* bus name; one entry is published at most.
C15_EntryFollowsGitHubContract ==
    /\ Len(published) <= 1
    /\ \A i \in 1..Len(published) :
          /\ event_data.val.eventType \in {PyStr(<<"create">>), PyStr(<<"delete">>)}
          /\ published[i].DetailType =
                 IF event_data.val.eventType = PyStr(<<"create">>)
                 THEN <<"GitHub Branch ", "Create">> ELSE <<"GitHub Branch ", "Delete">>
          /\ published[i].Source = "github.webhook"
          /\ published[i].Detail.wellformed
          /\ published[i].Detail.value.type = "dict"
          /\ published[i].EventBusName = EVENT_BUS_NAME

\* C15 witness: a Delete entry was published.
C15_Witness ==
    /\ Len(published) = 1
    /\ event_data.val.eventType = PyStr(<<"delete">>)
    /\ published[1].DetailType = <<"GitHub Branch ", "Delete">>

\* C15 as stated: the DetailType of a published entry is "Branch Create" or "Branch
\* Delete" according to the normalised eventType.
C15_DetailTypeIsBranchCreateOrDelete ==
    \A i \in 1..Len(published) :
        published[i].DetailType =
            IF event_data.val.eventType = PyStr(<<"create">>)
            THEN <<"Branch ", "Create">> ELSE <<"Branch ", "Delete">>

\* The positions of the webhook handler: all of them lie inside its try block.
HandlerPositions ==
    {"idle", "decode", "get_secret", "validate", "json_loads", "parse", "publish", "done"}

\* The answered request met an unexpected failure: the body could not be decoded, the
\* secret fetch failed, the parsed body of a create, delete or push event is no object,
\* or put_events raised.
UnexpectedFailure ==
    /\ hpc = "done"
    /\ \/ request.isBase64Encoded /\ request.body = InvalidBase64Body
       \/ body_str # Unset /\ webhook_secret = Unset
       \/ /\ body # Unset
          /\ body.type # "dict"
          /\ GithubEventHeader(request.headers)
                \in {PyStr(<<"create">>), PyStr(<<"delete">>), PyStr(<<"push">>)}
       \/ "put_events" \in {trace[i] : i \in 1..Len(trace)} /\ put_response = Unset

SubscriberOf(eventType) ==
    IF eventType = PyStr(<<"create">>) THEN create_branch_function
    ELSE destroy_branch_function

\* The handler has answered the validly signed push of refs/heads/demo with created
\* true, and put_events accepted its entry.
DemoPushAccepted ==
    /\ hpc = "done"
    /\ GithubEventHeader(request.headers) = PyStr(<<"push">>)
    /\ body # Unset
    /\ DictGet(body.val, "ref", PyNone) = PyStr(<<RefsHeads, "demo">>)
    /\ DictGet(body.val, "created", PyNone) = PyBool(TRUE)
    /\ put_response = [FailedEntryCount |-> 0]

\* The provisioner was invoked by a GitHub Branch Create event for branch demo.
DemoProvisionerInvoked ==
    \E v \in invoked :
        /\ v.function = create_branch_function
        /\ v.event["detail-type"] = PyStr(<<"GitHub Branch ", "Create">>)
        /\ v.event["detail"].val.referenceName = PyStr(<<"demo">>)

\* C14: every entry on the bus is matched by the rule of its event type alone, so every
\* invocation EventBridge makes is of the provisioner for a Create and of the
\* decommissioner for a Delete; and once put_events accepted the entry of a validly
\* signed push of refs/heads/demo with created true, the provisioner is eventually
\* invoked for branch demo.
C14_TypeFilteredRouting ==
    /\ [](\A e \in bus : Targets(e.entry) = {SubscriberOf(e.event_data.eventType)})
    /\ [](\A v \in invoked : v.function = SubscriberOf(v.event_data.eventType))
    /\ (DemoPushAccepted ~> DemoProvisionerInvoked)

\* C14 witness: the provisioner was invoked for branch demo and the decommissioner for
\* a Delete.
C14_Witness ==
    /\ DemoProvisionerInvoked
    /\ \E v \in invoked : /\ v.function = destroy_branch_function
                           /\ v.event_data.eventType = PyStr(<<"delete">>)

\* The secret the store answers with, if it holds a string secret.
StoredSecret ==
    IF "SecretString" \in DOMAIN secret_store THEN {secret_store["SecretString"]} ELSE {}

\* C18: whatever the interleaving of the threads, the cache is empty or holds the
\* stored secret, a call that returns returns the stored secret, and a cache that
\* holds the secret is never changed again (a duplicate fetch stores the same value).
C18_CacheNeverCorrupted ==
    /\ [](webhook_secret_cache \in {PyNone} \cup StoredSecret)
    /\ [](\A t \in Threads : gpc[t] = "returned" => gret[t] \in StoredSecret)
    /\ [][webhook_secret_cache # PyNone =>
            webhook_secret_cache' = webhook_secret_cache]_vars

\* C18 witness: two threads both found the cache empty, both fetched, and both
\* returned the stored secret.
C18_Witness ==
    /\ \A t \in {1, 2} : /\ gpc[t] = "returned"
                          /\ gresponse[t] # Unset
                          /\ gret[t] \in StoredSecret
    /\ webhook_secret_cache \in StoredSecret

\* The step in which the decommissioner completes the handling of a Delete event for
\* the followed branch.
Completes == dpc # "returned" /\ dpc' = "returned" /\ Len(calls') = 4

\* C19: when the decommissioner completes a Delete event for branch B and no call of
\* another invocation reached CodeBuild while it was handling the event, CodeBuild
\* holds neither {prefix}-B-create nor {prefix}-B-destroy, whatever Create and Delete
\* events for B were handled before.
C19_AbsentAfterUndisturbedDelete ==
    [][(Completes /\ ~overlap') =>
          /\ ProjectName(LifeBranch, "create") \notin projects'
          /\ ProjectName(LifeBranch, "destroy") \notin projects']_vars

\* C19 witness: a Create and then a Delete were handled before, and the decommissioner
\* completed another Delete undisturbed, removing the create project that was there
\* when it began.
C19_Witness ==
    /\ dpc = "returned"
    /\ Len(calls) = 4
    /\ ~overlap
    /\ prev # Unset
    /\ ProjectName(LifeBranch, "create") \in projects0
    /\ projects = {}

\* C19 as stated: when the decommissioner completes a Delete event for branch B,
\* CodeBuild holds neither {prefix}-B-create nor {prefix}-B-destroy, whatever was
\* handled before or alongside.
C19_AbsentAfterDelete ==
    [][Completes =>
          /\ ProjectName(LifeBranch, "create") \notin projects'
          /\ ProjectName(LifeBranch, "destroy") \notin projects']_vars

\* The input of parse_github_event has one of the three recognised shapes: an explicit
\* create or delete with ref_type "branch", or a push with a true created or deleted
\* flag and a ref under refs/heads/.
RecognisedShape(headers, b) ==
    /\ b.type = "dict"
    /\ \/ /\ GithubEventHeader(headers) \in {PyStr(<<"create">>), PyStr(<<"delete">>)}
          /\ DictGet(b.val, "ref_type", PyNone) = PyStr(<<"branch">>)
       \/ /\ GithubEventHeader(headers) = PyStr(<<"push">>)
          /\ \/ DictGet(b.val, "created", PyNone) = PyBool(TRUE)
             \/ DictGet(b.val, "deleted", PyNone) = PyBool(TRUE)
          /\ DictGet(b.val, "ref", PyStr(<<>>)).type = "str"
          /\ StartsWith(DictGet(b.val, "ref", PyStr(<<>>)).val, RefsHeads)

\* C20: parse_github_event never raises; it returns a create or delete event for an
\* input of a recognised shape and None for every other input.
C20_NormalizerIsTotal ==
    (pure_fn = "parse_github_event" /\ pure_out # Pending) =>
        /\ ~Raised(pure_out)
        /\ IF RecognisedShape(pure_in[1], pure_in[2])
           THEN /\ pure_out.ret.type = "dict"
                /\ pure_out.ret.val.eventType \in {PyStr(<<"create">>), PyStr(<<"delete">>)}
           ELSE pure_out = Return(PyNone)

\* The steps of one invocation of the handler, in the order of lines 213-229.
HandlerSteps ==
    <<"get_webhook_secret", "validate_github_signature", "json.loads",
      "parse_github_event", "put_events">>

\* The number of put_events calls of the running invocation.
PutEventsCalls == Cardinality({i \in 1..Len(trace) : trace[i] = "put_events"})

\* The running invocation has its secret, the signature of its request is valid
\* under it, its body is well-formed JSON and the normalizer makes a create or
\* delete event of it.
Publishable ==
    /\ body_str # Unset /\ signature # Unset /\ webhook_secret # Unset
    /\ LET v == validate_github_signature(Utf8Encode(body_str), signature.val,
                                          webhook_secret.val)
       IN  ~Raised(v) /\ Truthy(v.ret)
    /\ ~Raised(JsonLoads(body_str))
    /\ LET o == parse_github_event(request.headers, JsonLoads(body_str).ret)
       IN  /\ ~Raised(o)
           /\ o.ret.type = "dict"
           /\ o.ret.val.eventType \in {PyStr(<<"create">>), PyStr(<<"delete">>)}

\* C21: the steps of an invocation happen in the order secret, signature, JSON,
\* normalizer, put_events; put_events is called at most once, with one entry, and
\* an invocation that has ended called it exactly once if and only if its signature
\* was valid, its JSON well-formed and its event a create or delete.
C21_OrderedStepsPublishOnce ==
    /\ IsPrefix(trace, HandlerSteps)
    /\ PutEventsCalls <= 1
    /\ Len(published) <= PutEventsCalls
    /\ hpc = "done" => (PutEventsCalls = 1 <=> Publishable)

C21_Witness ==
    /\ hpc = "done"
    /\ Publishable
    /\ trace = HandlerSteps
    /\ Len(published) = 1

=============================================================================
